---------------------------- MODULE Spec2Model ----------------------------
(***************************************************************************)
(* Model of the Markdown-AST renderers of multi-format-export-rs:          *)
(*   - DocxExporter (src/src/exporter/docx.rs): scaling functions, the     *)
(*     bold-first-line heuristic, list rendering, inline rendering;        *)
(*   - PdfExporter (src/src/exporter/pdf.rs): Markdown -> Typst text,      *)
(*     escaping, fence defusal, template injection;                        *)
(*   - MultiFormatExportEngine (src/src/multi_format_export_engine.rs):    *)
(*     the exporter registry and convert, with the HTML and Markdown       *)
(*     exporters it dispatches to.                                         *)
(* Strings are sequences of one-character strings.  Option<T> is a         *)
(* sequence of length 0 (None) or 1 (Some).                                *)
(***************************************************************************)
EXTENDS Integers, Sequences, FiniteSets, TLC

VARIABLES
    exporters,          \* MultiFormatExportEngine.exporters: format -> exporter
    format,             \* the format convert() is called with
    template_str,       \* the source text convert() and export() are called with
    exporter,           \* convert: the exporter the lookup found, None before it
    default_font_size,  \* DocxExporter.default_font_size (half-points)
    template,           \* PdfExporter.template
    md_ast,             \* children of the root node the parser returns
    pc,                 \* position inside export()
    idx,                \* docx: number of root children rendered so far
    docx,               \* docx: paragraphs added to the document so far
    typst_body,         \* pdf: result of md_to_typst
    main_source,        \* pdf: template with the body injected
    result              \* the value export() returns: None while running

vars == <<exporters, format, template_str, exporter,
          default_font_size, template,
          md_ast, pc, idx, docx, typst_body,
          main_source, result>>

-----------------------------------------------------------------------------
(* Bounds of the model *)

MaxBody == 402      \* configured body sizes 0..MaxBody
MaxCodeLen == 5     \* length of a code-block body
MaxTextLen == 3     \* length of a Text value
MaxEscLen == 3      \* length of a Text value over the reserved characters
MaxItems == 2       \* items of a top-level list
MaxNest == 2        \* nesting of Strong / Emphasis / Link around a leaf
MaxPieces == 3      \* pieces a template is put together from
MaxChildren == 3    \* children of the list item of SpecListItem
MaxDepth == 2       \* nesting depth of the list item of SpecListItem

-----------------------------------------------------------------------------
(* Option and small helpers *)

None == <<>>
Some(x) == <<x>>
IsSome(o) == Len(o) = 1
Unwrap(o) == o[1]

Max(a, b) == IF a >= b THEN a ELSE b
Min(a, b) == IF a <= b THEN a ELSE b

RECURSIVE SeqsUpTo(_, _)
\* all sequences over S of length <= n
SeqsUpTo(S, n) ==
    IF n = 0 THEN {<<>>}
    ELSE LET shorter == SeqsUpTo(S, n - 1)
         IN  shorter \cup {Append(s, x) : s \in shorter, x \in S}

-----------------------------------------------------------------------------
(***************************************************************************)
(* IEEE-754 binary32 arithmetic, as far as the scaling functions use it.   *)
(* An f32 is [m, s] with value m / 2^s and m < 2^24 + 1 (24 significant    *)
(* bits).  Every operation rounds to nearest, ties to even, as the         *)
(* hardware does.  All values here are far from the subnormal range.       *)
(***************************************************************************)

RECURSIVE BitLen(_)
BitLen(x) == IF x = 0 THEN 0 ELSE 1 + BitLen(x \div 2)

\* q + r/d (0 <= r < d) rounded to the nearest integer, ties to even
RoundTiesEven(q, r, d) ==
    IF 2 * r > d \/ (2 * r = d /\ q % 2 = 1) THEN q + 1 ELSE q

\* n as f32 for 0 <= n < 2^24: exact
F32FromInt(n) == [m |-> n, s |-> 0]

RECURSIVE DivShift(_, _, _)
\* least k with (m * 2^k) \div d >= 2^23
DivShift(m, d, k) ==
    IF (m * 2^k) \div d >= 2^23 THEN k ELSE DivShift(m, d, k + 1)

\* f / d for an f32 f and a small positive integer d (exactly representable)
F32DivInt(f, d) ==
    IF f.m = 0 THEN f
    ELSE LET k == DivShift(f.m, d, 0)
             n == f.m * 2^k
         IN  [m |-> RoundTiesEven(n \div d, n % d, d), s |-> f.s + k]

\* a * g for an integer a < 2^11 (as an exact f32) and an f32 g.  The exact
\* product a * g.m is kept in two 12-bit-aligned limbs and then rounded to
\* 24 significant bits.
F32MulInt(a, g) ==
    LET lo0 == a * (g.m % 4096)
        hi  == a * (g.m \div 4096) + (lo0 \div 4096)
        lo  == lo0 % 4096
        e   == IF hi = 0 THEN 0 ELSE Max(BitLen(hi) + 12 - 24, 0)
        q   == hi * 2^(12 - e) + (lo \div 2^e)
        r   == lo % 2^e
    IN  [m |-> RoundTiesEven(q, r, 2^e), s |-> g.s - e]

\* f32::round: to the nearest integer, ties away from zero (f >= 0 here)
F32Round(f) ==
    IF f.s <= 0 THEN f.m * 2^(0 - f.s)
    ELSE IF f.s > 30 THEN 0
    ELSE (f.m + 2^(f.s - 1)) \div 2^(f.s)

-----------------------------------------------------------------------------
(* DocxExporter: scaling functions (docx.rs 45-82, 468-485) *)

\* mutant: the entries of depth 4 and depth 5 are exchanged
multiplier_swapped(depth) ==
    CASE depth = 1 -> [m |-> 13421773, s |-> 23]
      [] depth = 2 -> [m |-> 12163482, s |-> 23]
      [] depth = 3 -> [m |-> 10905190, s |-> 23]
      [] depth = 4 -> [m |-> 8808038,  s |-> 23]
      [] depth = 5 -> [m |-> 9646899,  s |-> 23]
      [] OTHER     -> [m |-> 8388608,  s |-> 23]

\* mutant: the catch-all arm repeats the multiplier of depth 5
multiplier_deep(depth) ==
    CASE depth = 1 -> [m |-> 13421773, s |-> 23]
      [] depth = 2 -> [m |-> 12163482, s |-> 23]
      [] depth = 3 -> [m |-> 10905190, s |-> 23]
      [] depth = 4 -> [m |-> 9646899,  s |-> 23]
      [] OTHER     -> [m |-> 8808038,  s |-> 23]

\* the f32 nearest to each literal of the match, as a mantissa over 2^23
multiplier(depth) ==
    CASE depth = 1 -> [m |-> 13421773, s |-> 23]   \* 1.60
      [] depth = 2 -> [m |-> 12163482, s |-> 23]   \* 1.45
      [] depth = 3 -> [m |-> 10905190, s |-> 23]   \* 1.30
      [] depth = 4 -> [m |-> 9646899,  s |-> 23]   \* 1.15
      [] depth = 5 -> [m |-> 8808038,  s |-> 23]   \* 1.05
      [] OTHER     -> [m |-> 8388608,  s |-> 23]   \* 1.00

heading_font_size_of(body, depth) ==
    LET hp0 == F32Round(F32MulInt(body, multiplier(depth)))
        hp1 == IF hp0 < 2 THEN 2 ELSE hp0
        hp2 == IF hp1 > 400 THEN 400 ELSE hp1
    IN  hp2

\* ratio = (default_font_size as f32 / 2.0) / 11.0
spacing_ratio(body) == F32DivInt(F32DivInt(F32FromInt(body), 2), 11)

\* mutant: the scaled value is not floored
heading_scale_nofloor(v, ratio) == F32Round(F32MulInt(v, ratio))

\* the closure scale of heading_spacing
heading_scale(v, ratio) == Max(F32Round(F32MulInt(v, ratio)), 20)

heading_base(depth) ==
    CASE depth = 1 -> <<360, 180>>
      [] depth = 2 -> <<320, 160>>
      [] depth = 3 -> <<300, 140>>
      [] OTHER     -> <<240, 120>>

heading_spacing_of(body, depth) ==
    LET base  == heading_base(depth)
        ratio == spacing_ratio(body)
    IN  <<heading_scale(base[1], ratio), heading_scale(base[2], ratio)>>

\* the closure scale of body_paragraph_spacing
body_scale(v, ratio) ==
    IF v = 0 THEN 0 ELSE Max(F32Round(F32MulInt(v, ratio)), 20)

body_paragraph_spacing_of(body) ==
    LET ratio == spacing_ratio(body)
    IN  <<body_scale(0, ratio), body_scale(160, ratio)>>

-----------------------------------------------------------------------------
(* Rust string helpers, on sequences of characters *)

NL == "\n"

IndexOf(s, c) == IF \E i \in 1..Len(s) : s[i] = c
                 THEN CHOOSE i \in 1..Len(s) : s[i] = c /\ \A j \in 1..(i - 1) : s[j] # c
                 ELSE 0

RECURSIVE Split(_, _)
\* str::split(c): the segments between occurrences of c (always at least one)
Split(s, c) ==
    LET i == IndexOf(s, c)
    IN  IF i = 0 THEN <<s>>
        ELSE <<SubSeq(s, 1, i - 1)>> \o Split(SubSeq(s, i + 1, Len(s)), c)

\* str::lines(): split on the line break, without a final empty line (the
\* strings of the model hold no carriage return)
Lines(s) ==
    LET parts == Split(s, NL)
    IN  IF parts[Len(parts)] = <<>> THEN SubSeq(parts, 1, Len(parts) - 1) ELSE parts

RECURSIVE TrimStartMatches(_, _)
\* str::trim_start_matches(c)
TrimStartMatches(s, c) ==
    IF s # <<>> /\ Head(s) = c THEN TrimStartMatches(Tail(s), c) ELSE s

\* str::starts_with(c)
StartsWith(s, c) == s # <<>> /\ Head(s) = c

\* the White_Space characters that occur in the strings of the model
WhiteSpace == {" ", NL, "\t", "\r"}

RECURSIVE TrimStart(_)
TrimStart(s) == IF s # <<>> /\ Head(s) \in WhiteSpace THEN TrimStart(Tail(s)) ELSE s

RECURSIVE TrimEnd(_)
TrimEnd(s) ==
    IF s # <<>> /\ s[Len(s)] \in WhiteSpace THEN TrimEnd(SubSeq(s, 1, Len(s) - 1)) ELSE s

\* str::trim()
Trim(s) == TrimEnd(TrimStart(s))

Digit(d) == <<"0", "1", "2", "3", "4", "5", "6", "7", "8", "9">>[d + 1]

RECURSIVE ToDigits(_)
\* format!("{}", n) for an unsigned integer
ToDigits(n) == IF n < 10 THEN <<Digit(n)>> ELSE Append(ToDigits(n \div 10), Digit(n % 10))

-----------------------------------------------------------------------------
(* mdast nodes (markdown::mdast::Node), the variants the renderers match on *)

Text(v) == [kind |-> "Text", value |-> v]
InlineCode(v) == [kind |-> "InlineCode", value |-> v]
Break == [kind |-> "Break"]
Strong(c) == [kind |-> "Strong", children |-> c]
Emphasis(c) == [kind |-> "Emphasis", children |-> c]
Link(c) == [kind |-> "Link", children |-> c]
Paragraph(c) == [kind |-> "Paragraph", children |-> c]
Heading(d, c) == [kind |-> "Heading", depth |-> d, children |-> c]
Code(l, v) == [kind |-> "Code", lang |-> l, value |-> v]
List(o, s, c) == [kind |-> "List", ordered |-> o, start |-> s, children |-> c]
ListItem(c) == [kind |-> "ListItem", children |-> c]
ThematicBreak == [kind |-> "ThematicBreak"]

-----------------------------------------------------------------------------
(* docx-rs document model: runs and paragraphs *)

LIST_BASE_LEFT == 720
LIST_LEVEL_INCREMENT == 360
LIST_HANGING == 360

\* DocxRun::new().add_text(text), with the properties set on it
TextRun(text, bold, italic, fonts, size) ==
    [break |-> FALSE, text |-> text, bold |-> bold, italic |-> italic,
     fonts |-> fonts, size |-> size]

\* DocxRun::new().add_break(BreakType::TextWrapping)
BreakRun ==
    [break |-> TRUE, text |-> <<>>, bold |-> FALSE, italic |-> FALSE,
     fonts |-> "none", size |-> None]

\* DocxParagraph::new()
NewParagraph == [line_spacing |-> None, left |-> None, hanging |-> None, runs |-> <<>>]

add_run(p, run) == [p EXCEPT !.runs = Append(@, run)]

\* DocxParagraph::indent(left, special_indent, None, None)
indent(p, left, hanging) == [p EXCEPT !.left = left, !.hanging = hanging]

-----------------------------------------------------------------------------
(* DocxExporter *)

heading_font_size(depth) == heading_font_size_of(default_font_size, depth)

heading_spacing(depth) == heading_spacing_of(default_font_size, depth)

body_paragraph_spacing == body_paragraph_spacing_of(default_font_size)

new_body_paragraph ==
    [NewParagraph EXCEPT !.line_spacing = Some(body_paragraph_spacing)]

add_text_run(paragraph, text, bold, italic, mono, size) ==
    IF text = <<>> THEN paragraph
    ELSE LET fonts == IF mono THEN "mono_font_family" ELSE "default_font_family"
             effective_size == IF size > 0 THEN size ELSE default_font_size
             run == TextRun(text, bold, italic, fonts,
                            IF effective_size > 0 THEN Some(effective_size) ELSE None)
         IN  add_run(paragraph, run)

RECURSIVE collect_plain_text(_)
collect_plain_text(nodes) ==
    IF nodes = <<>> THEN <<>>
    ELSE LET n == Head(nodes)
             piece == CASE n.kind = "Text" -> n.value
                        [] n.kind = "InlineCode" -> n.value
                        [] n.kind = "Break" -> <<NL>>
                        [] OTHER -> <<>>
         IN  piece \o collect_plain_text(Tail(nodes))

RECURSIVE add_text_parts_trailing(_, _, _, _, _, _)
\* a loop that adds a line-break run after every segment, the last included
add_text_parts_trailing(paragraph, parts, force_bold, force_italic, mono, base_size) ==
    IF parts = <<>> THEN paragraph
    ELSE LET part == Head(parts)
             p1 == IF part # <<>>
                   THEN add_text_run(paragraph, part, force_bold, force_italic, mono, base_size)
                   ELSE paragraph
             p2 == add_run(p1, BreakRun)
         IN  add_text_parts_trailing(p2, Tail(parts), force_bold, force_italic, mono,
                                     base_size)

RECURSIVE add_text_parts(_, _, _, _, _, _)
\* the while-let loop over t.value.split('\n') of the Text arm
add_text_parts(paragraph, parts, force_bold, force_italic, mono, base_size) ==
    IF parts = <<>> THEN paragraph
    ELSE LET part == Head(parts)
             p1 == IF part # <<>>
                   THEN add_text_run(paragraph, part, force_bold, force_italic, mono, base_size)
                   ELSE paragraph
             p2 == IF Tail(parts) # <<>> THEN add_run(p1, BreakRun) ELSE p1
         IN  add_text_parts(p2, Tail(parts), force_bold, force_italic, mono, base_size)

\* mutant: the Emphasis arm passes a cleared bold flag
child_flags_clearing(kind, force_bold, force_italic) ==
    IF kind = "Strong" THEN <<TRUE, force_italic>> ELSE <<FALSE, TRUE>>

\* the flags the Strong and Emphasis arms pass to the recursion on the children
child_flags(kind, force_bold, force_italic) ==
    IF kind = "Strong" THEN <<TRUE, force_italic>> ELSE <<force_bold, TRUE>>

RECURSIVE append_inline_children_with_base(_, _, _, _, _, _)
append_inline_children_with_base(paragraph, nodes, force_bold, force_italic, base_size, mono) ==
    IF nodes = <<>> THEN paragraph
    ELSE LET node == Head(nodes)
             next ==
               CASE node.kind = "Text" ->
                      add_text_parts(paragraph, Split(node.value, NL),
                                     force_bold, force_italic, mono, base_size)
                 [] node.kind \in {"InlineCode", "Code"} ->
                      add_text_run(paragraph, node.value, force_bold, force_italic,
                                   TRUE, base_size)
                 [] node.kind \in {"Emphasis", "Strong"} ->
                      LET f == child_flags(node.kind, force_bold, force_italic)
                      IN  append_inline_children_with_base(paragraph, node.children,
                                                           f[1], f[2], base_size, mono)
                 [] node.kind = "Break" -> add_run(paragraph, BreakRun)
                 [] OTHER ->
                      LET txt == collect_plain_text(<<node>>)
                      IN  IF txt # <<>>
                          THEN add_text_run(paragraph, txt, force_bold, force_italic,
                                            mono, base_size)
                          ELSE paragraph
         IN  append_inline_children_with_base(next, Tail(nodes), force_bold,
                                              force_italic, base_size, mono)

\* a heading renderer that does not force bold
render_heading_node_unforced(heading) ==
    LET size == heading_font_size(heading.depth)
        p == [NewParagraph EXCEPT !.line_spacing = Some(heading_spacing(heading.depth))]
    IN  append_inline_children_with_base(p, heading.children, FALSE, FALSE, size, FALSE)

render_heading_node(heading) ==
    LET size == heading_font_size(heading.depth)
        p == [NewParagraph EXCEPT !.line_spacing = Some(heading_spacing(heading.depth))]
    IN  append_inline_children_with_base(p, heading.children, TRUE, FALSE, size, FALSE)

\* mutant: a paragraph of one child is never a heading
is_strong_line_heading_two(p) ==
    IF Len(p.children) = 2 /\ p.children[1].kind = "Strong"
                           /\ p.children[2].kind = "Text"
    THEN StartsWith(p.children[2].value, NL)
    ELSE FALSE

is_strong_line_heading(p) ==
    IF p.children = <<>> THEN FALSE
    ELSE IF Len(p.children) = 1 THEN p.children[1].kind = "Strong"
    ELSE IF Len(p.children) = 2 /\ p.children[1].kind = "Strong"
                                /\ p.children[2].kind = "Text"
         THEN StartsWith(p.children[2].value, NL)
    ELSE FALSE

\* mutant: only the first line break is stripped
heading_rest_one(value) == IF StartsWith(value, NL) THEN Tail(value) ELSE value

\* t.value.trim_start_matches('\n') of the remainder text
heading_rest(value) == TrimStartMatches(value, NL)

\* Option<(heading, Option<body>)> as a sequence: <<>> is None, otherwise the
\* heading paragraph followed by the body paragraph when there is one
split_paragraph_heading(p) ==
    IF ~is_strong_line_heading(p) THEN None
    ELSE LET size == heading_font_size(2)
             hp0 == [NewParagraph EXCEPT !.line_spacing = Some(heading_spacing(2))]
             heading_para ==
                 append_inline_children_with_base(hp0, SubSeq(p.children, 1, 1),
                                                  TRUE, FALSE, size, FALSE)
         IN  IF Len(p.children) = 1 THEN <<heading_para>>
             ELSE IF p.children[2].kind = "Text"
             THEN LET rest == heading_rest(p.children[2].value)
                  IN  IF rest = <<>> THEN <<heading_para>>
                      ELSE <<heading_para,
                             append_inline_children_with_base(new_body_paragraph,
                                 <<Text(rest)>>, FALSE, FALSE, 0, FALSE)>>
             ELSE <<heading_para>>

render_paragraph(p) ==
    append_inline_children_with_base(new_body_paragraph, p.children, FALSE, FALSE, 0, FALSE)

RECURSIVE code_line_runs(_, _, _)
\* the loop of render_code_block over code.value.lines().enumerate()
code_line_runs(p, lines, i) ==
    IF i > Len(lines) THEN p
    ELSE LET run == TextRun(lines[i], FALSE, FALSE, "mono_font_family",
                            IF default_font_size > 0 THEN Some(default_font_size) ELSE None)
             p1 == add_run(p, run)
             p2 == IF i - 1 < Len(lines) - 1 THEN add_run(p1, BreakRun) ELSE p1
         IN  code_line_runs(p2, lines, i + 1)

render_code_block(code) ==
    code_line_runs(indent(new_body_paragraph, Some(0), None), Lines(code.value), 1)

list_left_indent(depth) == LIST_BASE_LEFT + depth * LIST_LEVEL_INCREMENT

\* the marker of an item's first paragraph, with the space that follows it
list_marker(ordered, index) ==
    (IF ordered THEN Append(ToDigits(index), ".") ELSE <<"BULLET">>) \o <<" ">>

\* if list.ordered { index += 1; } at the end of an item
next_index(ordered, index) == IF ordered THEN index + 1 ELSE index

\* a Paragraph arm that gives a later paragraph the left indent of the first
list_item_paragraph_same_left(p, ordered, index, depth, first_block) ==
    LET para == IF first_block
                THEN add_run(indent(NewParagraph, Some(list_left_indent(depth)),
                                    Some(LIST_HANGING)),
                             TextRun(list_marker(ordered, index), TRUE, FALSE, "none", None))
                ELSE indent(NewParagraph, Some(list_left_indent(depth)), None)
    IN  append_inline_children_with_base(para, p.children, FALSE, FALSE, 0, FALSE)

\* the Paragraph arm of the loop over an item's children
list_item_paragraph(p, ordered, index, depth, first_block) ==
    LET para == IF first_block
                THEN add_run(indent(NewParagraph, Some(list_left_indent(depth)),
                                    Some(LIST_HANGING)),
                             TextRun(list_marker(ordered, index), TRUE, FALSE, "none", None))
                ELSE indent(NewParagraph, Some(list_left_indent(depth) + LIST_HANGING), None)
    IN  append_inline_children_with_base(para, p.children, FALSE, FALSE, 0, FALSE)

RECURSIVE render_list(_, _)
RECURSIVE render_block_node(_, _)
RECURSIVE render_item_children(_, _, _, _, _)
RECURSIVE render_items(_, _, _, _)

\* the loop over item.children; first_block is the flag of the loop
render_item_children(children, ordered, index, depth, first_block) ==
    IF children = <<>> THEN <<>>
    ELSE LET child == Head(children)
         IN  CASE child.kind = "Paragraph" ->
                    <<list_item_paragraph(child, ordered, index, depth, first_block)>>
                    \o render_item_children(Tail(children), ordered, index, depth, FALSE)
               [] child.kind = "List" ->
                    render_list(child, depth + 1)
                    \o render_item_children(Tail(children), ordered, index, depth, first_block)
               [] OTHER ->
                    render_block_node(child, depth + 1)
                    \o render_item_children(Tail(children), ordered, index, depth, first_block)

\* the loop over list.children; index is the counter of the loop
render_items(items, ordered, index, depth) ==
    IF items = <<>> THEN <<>>
    ELSE LET item_node == Head(items)
         IN  IF item_node.kind # "ListItem"
             THEN render_items(Tail(items), ordered, index, depth)
             ELSE render_item_children(item_node.children, ordered, index, depth, TRUE)
                  \o render_items(Tail(items), ordered, next_index(ordered, index), depth)

\* mutant: the start value of the list is ignored
render_list_from_one(list, depth) == render_items(list.children, list.ordered, 1, depth)

render_list(list, depth) ==
    render_items(list.children, list.ordered,
                 IF IsSome(list.start) THEN Unwrap(list.start) ELSE 1, depth)

render_block_node(node, depth) ==
    CASE node.kind = "Paragraph" ->
           LET split == split_paragraph_heading(node)
           IN  IF split # None THEN split ELSE <<render_paragraph(node)>>
      [] node.kind = "Heading" -> <<render_heading_node(node)>>
      [] node.kind = "Code" -> <<render_code_block(node)>>
      [] node.kind = "List" -> render_list(node, depth)
      [] node.kind \in {"Text", "Strong", "Emphasis", "Break", "InlineCode"} ->
           <<append_inline_children_with_base(new_body_paragraph, <<node>>,
                                              FALSE, FALSE, 0, FALSE)>>
      [] OTHER -> <<>>

-----------------------------------------------------------------------------
(* PdfExporter: Markdown tree -> Typst source text *)

ZWSP == "ZWSP"          \* U+200B, one character
BACKTICK == "BACKTICK"  \* U+0060, one character
BACKSLASH == "\\"

PLACEHOLDER == <<"{", "{", "c", "o", "n", "t", "e", "n", "t", "}", "}">>

DEFAULT_TEMPLATE ==
    <<NL, "#", "s", "e", "t", " ", "p", "a", "g", "e", "(", "p", "a", "p",
      "e", "r", ":", " ", "\"", "a", "4", "\"", ")", NL, "#", "s", "e",
      "t", " ", "t", "e", "x", "t", "(", "f", "o", "n", "t", ":", " ",
      "\"", "L", "i", "b", "e", "r", "a", "t", "i", "o", "n", " ", "S",
      "e", "r", "i", "f", "\"", ",", " ", "1", "1", "p", "t", ")", NL, NL,
      NL, "{", "{", "c", "o", "n", "t", "e", "n", "t", "}", "}", NL>>

IsPrefix(pat, s) == Len(pat) <= Len(s) /\ SubSeq(s, 1, Len(pat)) = pat

RECURSIVE ReplaceN(_, _, _, _)
\* str::replacen(pat, to, count): the first count non-overlapping matches,
\* found from left to right, are replaced (pat is not empty)
ReplaceN(s, pat, to, count) ==
    IF count = 0 \/ Len(s) < Len(pat) THEN s
    ELSE IF IsPrefix(pat, s)
         THEN to \o ReplaceN(SubSeq(s, Len(pat) + 1, Len(s)), pat, to, count - 1)
         ELSE <<Head(s)>> \o ReplaceN(Tail(s), pat, to, count)

\* str::replace(pat, to): every non-overlapping match; a string of length n
\* has at most n matches
Replace(s, pat, to) == ReplaceN(s, pat, to, Len(s))

Repeat(c, n) == [i \in 1..n |-> c]

\* mutant: the hash sign is not matched
Reserved_without_hash == {"{", "}", "[", "]"}

Reserved == {"{", "}", "[", "]", "#"}

RECURSIVE escape_chars(_)
\* the loop of escape_text over s.chars()
escape_chars(s) ==
    IF s = <<>> THEN <<>>
    ELSE (IF Head(s) \in Reserved THEN <<BACKSLASH, Head(s)>> ELSE <<Head(s)>>)
         \o escape_chars(Tail(s))

escape_text(s) ==
    IF \E i \in 1..Len(s) : s[i] \in Reserved THEN escape_chars(s) ELSE s

escape_code(s) ==
    Replace(s, <<BACKTICK, BACKTICK, BACKTICK>>, <<BACKTICK, ZWSP, BACKTICK, BACKTICK>>)

\* an injection that replaces every placeholder of the template
inject_content_all(tmpl, content) == Replace(tmpl, PLACEHOLDER, content)

inject_content(tmpl, content) == ReplaceN(tmpl, PLACEHOLDER, content, 1)

RECURSIVE collect_inlines(_)
collect_inlines(nodes) ==
    IF nodes = <<>> THEN <<>>
    ELSE LET n == Head(nodes)
             piece ==
               CASE n.kind = "Text" -> escape_text(n.value)
                 [] n.kind \in {"InlineCode", "Code"} ->
                      <<BACKTICK>> \o escape_code(n.value) \o <<BACKTICK>>
                 [] n.kind = "Strong" -> <<"*">> \o collect_inlines(n.children) \o <<"*">>
                 [] n.kind = "Emphasis" -> <<"_">> \o collect_inlines(n.children) \o <<"_">>
                 [] n.kind = "Break" -> <<" ", BACKSLASH, NL>>
                 [] OTHER ->
                      IF "children" \in DOMAIN n THEN collect_inlines(n.children) ELSE <<>>
         IN  piece \o collect_inlines(Tail(nodes))

RECURSIVE indent_nested_lines(_)
\* the loop over nested_str.lines(): every non-blank line is appended on a
\* line of its own, two spaces deeper
indent_nested_lines(lines) ==
    IF lines = <<>> THEN <<>>
    ELSE (IF Trim(Head(lines)) # <<>> THEN <<NL, " ", " ">> \o Head(lines) ELSE <<>>)
         \o indent_nested_lines(Tail(lines))

RECURSIVE pdf_render_block(_)
RECURSIVE pdf_render_list(_)
RECURSIVE pdf_item_buf(_)
RECURSIVE pdf_render_items(_, _, _)

\* item_buf after the loop over item.children
pdf_item_buf(children) ==
    IF children = <<>> THEN <<>>
    ELSE LET c == Head(children)
             piece ==
               CASE c.kind = "Paragraph" -> collect_inlines(c.children)
                 [] c.kind = "List" -> indent_nested_lines(Lines(pdf_render_list(c)))
                 [] OTHER -> pdf_render_block(c)
         IN  piece \o pdf_item_buf(Tail(children))

\* the loop over list.children; index is the counter of the loop
pdf_render_items(items, ordered, index) ==
    IF items = <<>> THEN <<>>
    ELSE LET item_node == Head(items)
         IN  IF item_node.kind # "ListItem"
             THEN pdf_render_items(Tail(items), ordered, index)
             ELSE LET body == Trim(pdf_item_buf(item_node.children))
                  IN  IF ordered
                      THEN ToDigits(index) \o <<".", " ">> \o body \o <<NL>>
                           \o pdf_render_items(Tail(items), ordered, index + 1)
                      ELSE <<"-", " ">> \o body \o <<NL>>
                           \o pdf_render_items(Tail(items), ordered, index)

pdf_render_list(list) ==
    pdf_render_items(list.children, list.ordered,
                     IF IsSome(list.start) THEN Unwrap(list.start) ELSE 1)
    \o <<NL>>

\* the Code arm of render_block: the fence, the language tag, the defused body
render_code_fence(lang, value) ==
    <<BACKTICK, BACKTICK, BACKTICK>> \o lang \o <<NL>> \o escape_code(value)
    \o <<NL, BACKTICK, BACKTICK, BACKTICK, NL, NL>>

pdf_render_block(node) ==
    CASE node.kind = "Heading" ->
           <<NL>> \o Repeat("=", node.depth) \o <<" ">> \o collect_inlines(node.children)
           \o <<NL, NL>>
      [] node.kind = "Paragraph" ->
           LET txt == collect_inlines(node.children)
           IN  IF Trim(txt) = <<>> THEN <<>> ELSE txt \o <<NL, NL>>
      [] node.kind = "Code" ->
           render_code_fence(IF IsSome(node.lang) THEN Unwrap(node.lang) ELSE <<>>,
                             node.value)
      [] node.kind = "List" -> pdf_render_list(node)
      [] node.kind \in {"Strong", "Emphasis", "InlineCode", "Text", "Break"} ->
           LET txt == collect_inlines(<<node>>)
           IN  IF txt = <<>> THEN <<>> ELSE txt \o <<NL, NL>>
      [] OTHER -> <<>>

RECURSIVE md_to_typst(_)
\* the loop over the root's children
md_to_typst(children) ==
    IF children = <<>> THEN <<>>
    ELSE pdf_render_block(Head(children)) \o md_to_typst(Tail(children))

-----------------------------------------------------------------------------
(* Export::export: the value returned *)

DOCX_MIME == "application/vnd.openxmlformats-officedocument.wordprocessingml.document"
DOCX_EXTENSION == "docx"
PDF_MIME == "application/pdf"
PDF_EXTENSION == "pdf"
HTML_MIME == "text/html"
HTML_EXTENSION == "html"
MARKDOWN_MIME == "text/markdown"
MARKDOWN_EXTENSION == "md"

\* Ok(Exported { data, mime, extension })
Exported(data, mime, extension) ==
    [ok |-> TRUE, data |-> data, mime |-> mime, extension |-> extension]

\* Err(MultiFormatExportError::kind(msg))
ExportError(kind, msg) == [ok |-> FALSE, kind |-> kind, msg |-> msg]

-----------------------------------------------------------------------------
(* DocxExporter::export, one action per step *)

\* markdown::to_mdast returned the tree
DocxParseOk ==
    /\ pc = "parse"
    /\ exporter = Some("DocxExporter")
    /\ pc' = "render"
    /\ UNCHANGED <<exporters, format, template_str, exporter, default_font_size,
                   template, md_ast, idx, docx, typst_body,
                   main_source, result>>

\* markdown::to_mdast returned a message: the ? operator returns it
DocxParseFail ==
    /\ pc = "parse"
    /\ exporter = Some("DocxExporter")
    /\ pc' = "done"
    /\ result' = Some(ExportError("MarkdownError", "message"))
    /\ UNCHANGED <<exporters, format, template_str, exporter, default_font_size,
                   template, md_ast, idx, docx, typst_body,
                   main_source>>

\* one turn of the loop over the children of the root
DocxRenderBlock ==
    /\ pc = "render"
    /\ idx < Len(md_ast)
    /\ docx' = docx \o render_block_node(md_ast[idx + 1], 0)
    /\ idx' = idx + 1
    /\ UNCHANGED <<exporters, format, template_str, exporter, default_font_size,
                   template, md_ast, pc, typst_body,
                   main_source, result>>

\* docx.build().pack(..) succeeded
DocxPackOk ==
    /\ pc = "render"
    /\ idx = Len(md_ast)
    /\ pc' = "done"
    /\ result' = Some(Exported(<<"packed", docx>>, DOCX_MIME, DOCX_EXTENSION))
    /\ UNCHANGED <<exporters, format, template_str, exporter, default_font_size,
                   template, md_ast, idx, docx, typst_body,
                   main_source>>

\* docx.build().pack(..) failed
DocxPackFail ==
    /\ pc = "render"
    /\ idx = Len(md_ast)
    /\ pc' = "done"
    /\ result' = Some(ExportError("DocxError", "pack"))
    /\ UNCHANGED <<exporters, format, template_str, exporter, default_font_size,
                   template, md_ast, idx, docx, typst_body,
                   main_source>>

DocxNext ==
    \/ DocxParseOk
    \/ DocxParseFail
    \/ DocxRenderBlock
    \/ DocxPackOk
    \/ DocxPackFail

-----------------------------------------------------------------------------
(* PdfExporter::export, one action per step *)

PdfParseOk ==
    /\ pc = "parse"
    /\ exporter = Some("PdfExporter")
    /\ pc' = "convert"
    /\ UNCHANGED <<exporters, format, template_str, exporter, default_font_size,
                   template, md_ast, idx, docx, typst_body,
                   main_source, result>>

PdfParseFail ==
    /\ pc = "parse"
    /\ exporter = Some("PdfExporter")
    /\ pc' = "done"
    /\ result' = Some(ExportError("PdfError", "Markdown parse"))
    /\ UNCHANGED <<exporters, format, template_str, exporter, default_font_size,
                   template, md_ast, idx, docx, typst_body,
                   main_source>>

PdfConvert ==
    /\ pc = "convert"
    /\ typst_body' = md_to_typst(md_ast)
    /\ pc' = "inject"
    /\ UNCHANGED <<exporters, format, template_str, exporter, default_font_size,
                   template, md_ast, idx, docx, main_source, result>>

PdfInject ==
    /\ pc = "inject"
    /\ main_source' = inject_content(template, typst_body)
    /\ pc' = "compile"
    /\ UNCHANGED <<exporters, format, template_str, exporter, default_font_size,
                   template, md_ast, idx, docx, typst_body, result>>

PdfCompileOk ==
    /\ pc = "compile"
    /\ pc' = "serialize"
    /\ UNCHANGED <<exporters, format, template_str, exporter, default_font_size,
                   template, md_ast, idx, docx, typst_body,
                   main_source, result>>

\* a compile stage that on failure runs the call again from the conversion
PdfCompileFail_retry ==
    /\ pc = "compile"
    /\ pc' = "convert"
    /\ UNCHANGED <<exporters, format, template_str, exporter, default_font_size,
                   template, md_ast, idx, docx, typst_body,
                   main_source, result>>

\* engine.compile().output is an error
PdfCompileFail ==
    /\ pc = "compile"
    /\ pc' = "done"
    /\ result' = Some(ExportError("PdfError", "Typst output error"))
    /\ UNCHANGED <<exporters, format, template_str, exporter, default_font_size,
                   template, md_ast, idx, docx, typst_body,
                   main_source>>

PdfSerializeOk ==
    /\ pc = "serialize"
    /\ pc' = "done"
    /\ result' = Some(Exported(<<"pdf", main_source>>, PDF_MIME, PDF_EXTENSION))
    /\ UNCHANGED <<exporters, format, template_str, exporter, default_font_size,
                   template, md_ast, idx, docx, typst_body,
                   main_source>>

PdfSerializeFail ==
    /\ pc = "serialize"
    /\ pc' = "done"
    /\ result' = Some(ExportError("PdfError", "Typst PDF rendering error"))
    /\ UNCHANGED <<exporters, format, template_str, exporter, default_font_size,
                   template, md_ast, idx, docx, typst_body,
                   main_source>>

PdfNext ==
    \/ PdfParseOk
    \/ PdfParseFail
    \/ PdfConvert
    \/ PdfInject
    \/ PdfCompileOk
    \/ PdfCompileFail
    \/ PdfSerializeOk
    \/ PdfSerializeFail

-----------------------------------------------------------------------------
(* HtmlExporter::export and MarkdownExporter::export: one step each *)

\* markdown::to_html(content), content being template_str: the HTML text the
\* library renders, kept as an uninterpreted image of the source text
to_html(c) == <<"to_html", c>>

HtmlExport ==
    /\ pc = "export"
    /\ exporter = Some("HtmlExporter")
    /\ pc' = "done"
    /\ result' = Some(Exported(to_html(template_str), HTML_MIME, HTML_EXTENSION))
    /\ UNCHANGED <<exporters, format, template_str, exporter, default_font_size,
                   template, md_ast, idx, docx, typst_body, main_source>>

MarkdownExport ==
    /\ pc = "export"
    /\ exporter = Some("MarkdownExporter")
    /\ pc' = "done"
    /\ result' = Some(Exported(template_str, MARKDOWN_MIME, MARKDOWN_EXTENSION))
    /\ UNCHANGED <<exporters, format, template_str, exporter, default_font_size,
                   template, md_ast, idx, docx, typst_body, main_source>>

-----------------------------------------------------------------------------
(* MultiFormatExportEngine *)

\* enum OutputFormat
OutputFormat == {"md", "html", "pdf", "docx"}

\* the registry MultiFormatExportEngine::new() builds
new_exporters ==
    [f \in OutputFormat |->
        CASE f = "html" -> "HtmlExporter"
          [] f = "pdf"  -> "PdfExporter"
          [] f = "docx" -> "DocxExporter"
          [] f = "md"   -> "MarkdownExporter"]

\* a lookup that ignores the key and always finds the Markdown exporter
get_any(registry, f) ==
    IF "md" \in DOMAIN registry THEN Some(registry["md"]) ELSE None

\* self.exporters.get(format): Option of the exporter registered for format
get(registry, f) ==
    IF f \in DOMAIN registry THEN Some(registry[f]) ELSE None

\* the position at which the export of an exporter starts
entry(e) ==
    IF e \in {"DocxExporter", "PdfExporter"} THEN "parse" ELSE "export"

\* convert: look the exporter up; without one, ok_or(..)? returns
\* UnsupportedFormat(format); with one, the call of its export is the value
\* of convert
Convert ==
    /\ pc = "convert_call"
    /\ exporter' = get(exporters, format)
    /\ IF IsSome(exporter')
       THEN /\ pc' = entry(Unwrap(exporter'))
            /\ UNCHANGED result
       ELSE /\ pc' = "done"
            /\ result' = Some(ExportError("UnsupportedFormat", format))
    /\ UNCHANGED <<exporters, format, template_str, default_font_size, template,
                   md_ast, idx, docx, typst_body, main_source>>

EngineNext ==
    \/ Convert
    \/ HtmlExport
    \/ MarkdownExport
    \/ DocxNext
    \/ PdfNext

-----------------------------------------------------------------------------
(* The state at the start of an export call: the exporter as constructed    *)
(* and the tree the parser returns for the content of the call              *)

\* default_font_size of DocxExporter::default()
DefaultBody == 22

\* the source text of a call, as far as the renderers are concerned: they
\* read only the tree the parser returns for it
SOURCE == "source"

\* the state in which the exporter registered for fmt starts its export
InitCall(fmt, sizes, templates, asts) ==
    /\ exporters = new_exporters
    /\ format = fmt
    /\ exporter = get(new_exporters, fmt)
    /\ template_str = SOURCE
    /\ default_font_size \in sizes
    /\ template \in templates
    /\ md_ast \in asts
    /\ pc = "parse"
    /\ idx = 0
    /\ docx = <<>>
    /\ typst_body = <<>>
    /\ main_source = <<>>
    /\ result = None

-----------------------------------------------------------------------------
(* Specification SpecScale: headings of every depth, exported by a          *)
(* DocxExporter of every body size 0..MaxBody                               *)

HeadingDocs == {<<Heading(d, <<Text(<<"a">>)>>)>> : d \in 1..6}

InitScale == InitCall("docx", 0..MaxBody, {DEFAULT_TEMPLATE}, HeadingDocs)

SpecScale == InitScale /\ [][DocxNext]_vars

\* the heading of the document has been rendered
HeadingRendered == idx = 1 /\ Len(docx) = 1 /\ md_ast[1].kind = "Heading"

\* C3: for every configured body size and every depth d in 1..6 the heading
\* size at depth d is at least the heading size at depth d+1, after rounding
\* and clamping.
C3_HeadingSizeMonotone ==
    \A d \in 1..6 : heading_font_size(d) >= heading_font_size(d + 1)

\* C3 witness: body size 22, a depth-4 heading rendered at size 25, which is
\* more than the 23 of depth 5 and less than the 29 of depth 3
C3_Witness ==
    /\ HeadingRendered
    /\ default_font_size = DefaultBody
    /\ md_ast[1].depth = 4
    /\ docx[1].runs[1].size = Some(25)
    /\ heading_font_size(3) = 29
    /\ heading_font_size(5) = 23

\* a heading of depth 6 has been rendered
Depth6Rendered == HeadingRendered /\ md_ast[1].depth = 6

\* C4 as claimed: for every positive body size the heading size computed
\* for depth 6, the size of the runs of a rendered depth-6 heading, equals
\* the body size.
C4_Depth6EqualsBody ==
    (Depth6Rendered /\ default_font_size >= 1)
        => /\ heading_font_size(6) = default_font_size
           /\ docx[1].runs[1].size = Some(default_font_size)

\* C4 amended: the heading size of depth 6 is the body size clamped to
\* 2..400: it equals the body size exactly when 2 <= body size <= 400, it is
\* 2 for a smaller and 400 for a larger body size.
C4_Depth6IsClampedBody ==
    /\ heading_font_size(6) = Min(Max(default_font_size, 2), 400)
    /\ Depth6Rendered =>
           docx[1].runs[1].size = Some(Min(Max(default_font_size, 2), 400))

\* C4 witness: a depth-6 heading rendered at the body size 22
C4_Witness ==
    /\ HeadingRendered
    /\ default_font_size = DefaultBody
    /\ md_ast[1].depth = 6
    /\ docx[1].runs[1].size = Some(DefaultBody)

\* C5: for every body size b and every depth, both heading spacing values
\* are at least 20, and the values computed for body size 2*b are not
\* smaller than those computed for b.
C5_SpacingFloorAndDoubling ==
    \A d \in 1..6 :
        LET s1 == heading_spacing_of(default_font_size, d)
            s2 == heading_spacing_of(2 * default_font_size, d)
        IN  /\ s1[1] >= 20 /\ s1[2] >= 20
            /\ s2[1] >= s1[1] /\ s2[2] >= s1[2]

\* C5 witness: body size 2, a depth-1 heading rendered with spacing (33, 20):
\* the second value sits on the floor, and body size 4 gives (65, 33)
C5_Witness ==
    /\ HeadingRendered
    /\ default_font_size = 2
    /\ md_ast[1].depth = 1
    /\ docx[1].line_spacing = Some(<<33, 20>>)
    /\ heading_spacing_of(4, 1) = <<65, 33>>

-----------------------------------------------------------------------------
(* Specification SpecParagraph: one Paragraph of every shape the heuristic  *)
(* tells apart, exported by a DocxExporter of body size 0 or 22             *)

TextValues == {Text(v) : v \in SeqsUpTo({"a", NL}, MaxTextLen)}

StrongNodes ==
    { Strong(<<Text(<<"h">>)>>), Strong(<<>>), Strong(<<Text(<<"h", NL, "h">>)>>),
      Strong(<<Emphasis(<<Text(<<"h">>)>>)>>) }

OtherInlines ==
    TextValues \cup {Emphasis(<<Text(<<"e">>)>>), Break, InlineCode(<<"c">>)}

ParaChildren ==
    {<<>>}
    \cup {<<x>> : x \in StrongNodes \cup OtherInlines}
    \cup {<<x, y>> : x \in {Strong(<<Text(<<"h">>)>>), Emphasis(<<Text(<<"e">>)>>),
                            Text(<<"a">>)},
                     y \in OtherInlines \cup {Strong(<<Text(<<"h">>)>>)}}
    \cup {<<Strong(<<Text(<<"h">>)>>), y, Text(<<"a">>)>> : y \in TextValues}

ParagraphDocs == {<<Paragraph(c)>> : c \in ParaChildren}

InitParagraph == InitCall("docx", {0, DefaultBody}, {DEFAULT_TEMPLATE}, ParagraphDocs)

SpecParagraph == InitParagraph /\ [][DocxNext]_vars

\* the first block is a Paragraph and has been rendered
ParagraphRendered == idx = 1 /\ md_ast[1].kind = "Paragraph"

\* the two shapes of section 4.2
SoleStrong(p) == Len(p.children) = 1 /\ p.children[1].kind = "Strong"

StrongThenBreakText(p) ==
    /\ Len(p.children) = 2
    /\ p.children[1].kind = "Strong"
    /\ p.children[2].kind = "Text"
    /\ p.children[2].value # <<>>
    /\ p.children[2].value[1] = NL

\* v without its leading line breaks
Stripped(v) ==
    LET k == CHOOSE k \in 0..Len(v) :
                 /\ \A i \in 1..k : v[i] = NL
                 /\ (k = Len(v) \/ v[k + 1] # NL)
    IN  SubSeq(v, k + 1, Len(v))

RECURSIVE RunsText(_)
\* the text of a sequence of runs, a line-break run read as a line break
RunsText(runs) ==
    IF runs = <<>> THEN <<>>
    ELSE (IF Head(runs).break THEN <<NL>> ELSE Head(runs).text) \o RunsText(Tail(runs))

TextRunsOf(para) == {i \in 1..Len(para.runs) : ~para.runs[i].break}

\* a paragraph with the spacing of a depth-2 heading, every text run of it at
\* the depth-2 heading size
IsHeading2(para) ==
    /\ para.line_spacing = Some(heading_spacing(2))
    /\ para.left = None /\ para.hanging = None
    /\ \A i \in TextRunsOf(para) : para.runs[i].size = Some(heading_font_size(2))

\* a paragraph with the body spacing, no text run of it at a forced size
IsOrdinary(para) ==
    /\ para.line_spacing = Some(body_paragraph_spacing)
    /\ para.left = None /\ para.hanging = None
    /\ \A i \in TextRunsOf(para) :
           para.runs[i].size =
               IF default_font_size > 0 THEN Some(default_font_size) ELSE None

C7_WitnessEmptyRest ==
    /\ ParagraphRendered
    /\ md_ast[1] = Paragraph(<<Strong(<<Text(<<"h">>)>>), Text(<<NL, NL>>)>>)
    /\ Len(docx) = 1

-----------------------------------------------------------------------------
(* Specification SpecList: one top-level list of up to MaxItems items, its  *)
(* items holding paragraphs, code blocks and nested lists two levels deep.  *)
(* The text of the first paragraph of every item is a label that names the  *)
(* nesting depth of the item, whether its list is ordered, and the ordinal  *)
(* start + k - 1 of the item (its position k in an unordered list), so that *)
(* a rendered paragraph tells which item it came from.                      *)

DepthTags == <<"A", "B", "C">>

ItemLabel(depth, ordered, n) ==
    <<DepthTags[depth + 1], IF ordered THEN "o" ELSE "u">> \o ToDigits(n)

FirstPara(depth, ordered, n) == Paragraph(<<Text(ItemLabel(depth, ordered, n))>>)

ContPara == Paragraph(<<Text(<<"c">>)>>)

StartOpts == {None, Some(9)}

\* the ordinal the claim gives the k-th item of a list
Ordinal(ordered, start, k) ==
    IF ordered THEN (IF start = None THEN 1 ELSE start[1]) + k - 1 ELSE k

InnerList(depth) == List(TRUE, None, <<ListItem(<<FirstPara(depth, TRUE, 1)>>)>>)

\* a list of two items at the given depth; deep puts a list into its first item
NestedList(depth, ordered, start, deep) ==
    List(ordered, start,
         << ListItem(<<FirstPara(depth, ordered, Ordinal(ordered, start, 1))>>
                     \o (IF deep THEN <<InnerList(depth + 1)>> ELSE <<>>)),
            ListItem(<<FirstPara(depth, ordered, Ordinal(ordered, start, 2))>>) >>)

\* the nested list of the example 1. A / 1. B / 2. C: one item
SingleItemList(depth) == InnerList(depth)

NestedLists ==
    {NestedList(1, o, st, FALSE) : o \in BOOLEAN, st \in StartOpts}
    \cup {NestedList(1, TRUE, None, TRUE), SingleItemList(1)}

ItemChoices ==
    {<<"P">>, <<"PP">>, <<"PC">>}
    \cup {<<"PL", nl>> : nl \in NestedLists}
    \cup {<<"L", SingleItemList(1)>>, <<"LP", SingleItemList(1)>>}

\* the children of a top-level item of the chosen shape
ItemChildren(first, choice) ==
    CASE choice[1] = "P" -> <<first>>
      [] choice[1] = "PP" -> <<first, ContPara>>
      [] choice[1] = "PC" -> <<first, Code(None, <<"x", NL, "y">>)>>
      [] choice[1] = "PL" -> <<first, choice[2]>>
      [] choice[1] = "L" -> <<choice[2]>>
      [] choice[1] = "LP" -> <<choice[2], first>>

TopLists ==
    UNION { { List(o, st, [k \in 1..cnt |->
                      ListItem(ItemChildren(FirstPara(0, o, Ordinal(o, st, k)), f[k]))])
              : f \in [1..cnt -> ItemChoices] }
            : o \in BOOLEAN, st \in StartOpts, cnt \in 1..MaxItems }

ListDocs == {<<l>> : l \in TopLists}

InitList == InitCall("docx", {0, DefaultBody}, {DEFAULT_TEMPLATE}, ListDocs)

SpecList == InitList /\ [][DocxNext]_vars

\* the first block is a List and has been rendered
ListRendered == idx = 1 /\ md_ast[1].kind = "List"

RECURSIVE LabelCount(_)
\* the number of labelled Text nodes in a sequence of nodes
LabelCount(nodes) ==
    IF nodes = <<>> THEN 0
    ELSE LET n == Head(nodes)
             here == IF n.kind = "Text" /\ n.value # <<>>
                        /\ n.value[1] \in {DepthTags[i] : i \in 1..Len(DepthTags)}
                     THEN 1 ELSE 0
             below == IF "children" \in DOMAIN n THEN LabelCount(n.children) ELSE 0
         IN  here + below + LabelCount(Tail(nodes))

\* a paragraph that starts with a marker run (the only text run without fonts)
IsMarkerPara(para) ==
    para.runs # <<>> /\ ~para.runs[1].break /\ para.runs[1].fonts = "none"

MarkerParas == {i \in 1..Len(docx) : IsMarkerPara(docx[i])}

\* the label of a marker paragraph: the text of the run after the marker
LabelOf(para) == para.runs[2].text

LabelDepth(label) == CHOOSE d \in 0..(Len(DepthTags) - 1) : DepthTags[d + 1] = label[1]

\* C8: the k-th item of an ordered list with start value s gets the marker
\* "(s+k-1)." whatever the earlier items hold, a nested ordered list counts
\* from its own start value and leaves the outer counter alone, and the left
\* indent of a nested item is greater than that of its enclosing item.
C8_OrderedMarkersAndIndent ==
    ListRendered =>
        /\ Cardinality(MarkerParas) = LabelCount(md_ast)
        /\ \A i \in MarkerParas :
               LET label == LabelOf(docx[i])
               IN  label[2] = "o" =>
                       docx[i].runs[1].text
                           = SubSeq(label, 3, Len(label)) \o <<".", " ">>
        /\ \A i, j \in MarkerParas :
               LabelDepth(LabelOf(docx[j])) = LabelDepth(LabelOf(docx[i])) + 1
                   => docx[j].left[1] > docx[i].left[1]

\* the marker text and the left indent of the paragraphs of the document
MarkersAndIndents == [i \in 1..Len(docx) |-> <<docx[i].runs[1].text, docx[i].left>>]

\* C8 witness: 1. A / 1. B nested / 2. C gives the markers 1., 1., 2. in this
\* order, at the left indents 720, 1080, 720
C8_Witness ==
    /\ ListRendered
    /\ md_ast[1] = List(TRUE, None,
                        << ListItem(<<FirstPara(0, TRUE, 1), SingleItemList(1)>>),
                           ListItem(<<FirstPara(0, TRUE, 2)>>) >>)
    /\ MarkersAndIndents = << <<<<"1", ".", " ">>, Some(720)>>,
                              <<<<"1", ".", " ">>, Some(1080)>>,
                              <<<<"2", ".", " ">>, Some(720)>> >>

\* C2 as claimed: every run of the document that carries text has a font
\* size set, and that size is positive.
C2_EveryTextRunSized ==
    \A i \in 1..Len(docx) :
        \A k \in TextRunsOf(docx[i]) :
            /\ docx[i].runs[k].size # None
            /\ docx[i].runs[k].size[1] > 0

-----------------------------------------------------------------------------
(* Specification SpecInline: a Paragraph or a Heading whose inline content  *)
(* nests Strong, Emphasis and Link up to MaxNest deep.  The text of every   *)
(* leaf is a label that names its ancestors: "b" below a Strong node, "i"   *)
(* below an Emphasis node, "x" below both, "n" below neither, so that a     *)
(* rendered run tells which leaf it came from.                              *)

StyleLabel(in_strong, in_emphasis) ==
    IF in_strong THEN (IF in_emphasis THEN "x" ELSE "b")
    ELSE (IF in_emphasis THEN "i" ELSE "n")

StyleLeaves(in_strong, in_emphasis) ==
    { Text(<<StyleLabel(in_strong, in_emphasis)>>),
      InlineCode(<<StyleLabel(in_strong, in_emphasis)>>) }

\* the children of a node: none, one subtree, or a subtree beside a leaf
ChildSeqs(trees, leaves) ==
    {<<>>} \cup {<<t>> : t \in trees}
    \cup {<<t, l>> : t \in trees, l \in leaves}
    \cup {<<l, t>> : t \in trees, l \in leaves}

RECURSIVE StyleTrees(_, _, _)
StyleTrees(in_strong, in_emphasis, n) ==
    StyleLeaves(in_strong, in_emphasis) \cup
    IF n = 0 THEN {}
    ELSE {Strong(c) : c \in ChildSeqs(StyleTrees(TRUE, in_emphasis, n - 1),
                                      StyleLeaves(TRUE, in_emphasis))}
         \cup {Emphasis(c) : c \in ChildSeqs(StyleTrees(in_strong, TRUE, n - 1),
                                            StyleLeaves(in_strong, TRUE))}
         \cup {Link(c) : c \in ChildSeqs(StyleTrees(in_strong, in_emphasis, n - 1),
                                        StyleLeaves(in_strong, in_emphasis))}

InlineDocs ==
    {<<Paragraph(<<t>>)>> : t \in StyleTrees(FALSE, FALSE, MaxNest)}
    \cup {<<Paragraph(<<t, Text(<<"n">>)>>)>> : t \in StyleTrees(FALSE, FALSE, MaxNest)}
    \cup {<<Heading(1, <<t>>)>> : t \in StyleTrees(FALSE, FALSE, MaxNest)}

InitInline == InitCall("docx", {DefaultBody}, {DEFAULT_TEMPLATE}, InlineDocs)

SpecInline == InitInline /\ [][DocxNext]_vars

\* the caller of the inline renderer forced bold: render_heading_node does
CallerForcedBold == md_ast[1].kind = "Heading"

\* C10: every text run that comes from a leaf below a Strong node is bold
\* and every text run from a leaf below an Emphasis node is italic, whatever
\* lies between the node and the leaf; a text run from a leaf below no
\* Strong node is bold only if the caller forced bold, and a text run from a
\* leaf below no Emphasis node is not italic (no caller forces italic).
C10_ForcedStyleIsMonotone ==
    idx = 1 =>
        \A i \in 1..Len(docx) :
            \A k \in TextRunsOf(docx[i]) :
                LET run == docx[i].runs[k]
                    label == run.text[1]
                IN  /\ label \in {"b", "x"} => run.bold
                    /\ label \in {"i", "x"} => run.italic
                    /\ label \in {"n", "i"} => (run.bold <=> CallerForcedBold)
                    /\ label \in {"n", "b"} => ~run.italic

\* C10 witness: in **b _x_** n the runs b and x are bold, x alone is italic,
\* and n is neither
C10_Witness ==
    /\ idx = 1
    /\ md_ast[1] = Paragraph(<< Strong(<<Text(<<"b">>), Emphasis(<<Text(<<"x">>)>>)>>),
                                Text(<<"n">>) >>)
    /\ docx[1].runs =
           << TextRun(<<"b">>, TRUE, FALSE, "default_font_family", Some(DefaultBody)),
              TextRun(<<"x">>, TRUE, TRUE, "default_font_family", Some(DefaultBody)),
              TextRun(<<"n">>, FALSE, FALSE, "default_font_family", Some(DefaultBody)) >>

-----------------------------------------------------------------------------
(* Specification SpecPdfCode: one code block, its body any string of up to  *)
(* MaxCodeLen backticks, letters and line breaks, exported by PdfExporter   *)

CodeBodies == SeqsUpTo({BACKTICK, "a", NL}, MaxCodeLen)

CodeDocs == {<<Code(lang, v)>> : lang \in {None, Some(<<"r", "s">>)}, v \in CodeBodies}

InitPdfCode == InitCall("pdf", {DefaultBody}, {DEFAULT_TEMPLATE}, CodeDocs)

SpecPdfCode == InitPdfCode /\ [][PdfNext]_vars

\* md_to_typst has run
Converted == pc \notin {"parse", "convert"} /\ (pc = "done" => typst_body # <<>>)

\* the places of a text where three backticks in a row start
FenceStarts(out) ==
    {i \in 1..(Len(out) - 2) :
        out[i] = BACKTICK /\ out[i + 1] = BACKTICK /\ out[i + 2] = BACKTICK}

\* C1 as claimed: in the text of a rendered code block three backticks in a
\* row occur at the opening fence and at the closing fence only (the closing
\* fence is followed by the two line breaks that end the block), so the
\* escaped body holds no run of three backticks and the fence closes once.
C1_FenceClosesOnce ==
    Converted => FenceStarts(typst_body) = {1, Len(typst_body) - 4}

-----------------------------------------------------------------------------
(* Specification SpecPdfText: one Paragraph of one Text node, its value any *)
(* string of up to MaxEscLen reserved characters, backslashes and letters   *)

EscapeValues == SeqsUpTo({"{", "}", "[", "]", "#", BACKSLASH, "a"}, MaxEscLen)

TextDocs == {<<Paragraph(<<Text(v)>>)>> : v \in EscapeValues}

InitPdfText == InitCall("pdf", {DefaultBody}, {DEFAULT_TEMPLATE}, TextDocs)

SpecPdfText == InitPdfText /\ [][PdfNext]_vars

\* the reserved characters the claim names
ClaimReserved == {"{", "}", "[", "]", "#"}

RECURSIVE DropAddedBackslashes(_)
\* a text without the backslashes that stand directly before a reserved character
DropAddedBackslashes(out) ==
    IF out = <<>> THEN <<>>
    ELSE IF Head(out) = BACKSLASH /\ Len(out) >= 2 /\ out[2] \in ClaimReserved
         THEN <<out[2]>> \o DropAddedBackslashes(SubSeq(out, 3, Len(out)))
         ELSE <<Head(out)>> \o DropAddedBackslashes(Tail(out))

\* the text emitted for the Text node: the paragraph without the two line
\* breaks that end it
EmittedText == SubSeq(typst_body, 1, Len(typst_body) - 2)

\* C9: in the text emitted for a Text value every reserved character stands
\* directly after a backslash, one backslash is added per reserved character
\* and nothing else, and dropping the added backslashes gives the value back.
C9_ReservedEscaped ==
    (Converted /\ md_ast[1].children[1].value # <<>>) =>
        LET v == md_ast[1].children[1].value
            out == EmittedText
        IN  /\ \A i \in 1..Len(out) :
                   out[i] \in ClaimReserved => (i > 1 /\ out[i - 1] = BACKSLASH)
            /\ Len(out) = Len(v) + Cardinality({i \in 1..Len(v) : v[i] \in ClaimReserved})
            /\ DropAddedBackslashes(out) = v

\* C9 witness: the value \{# is emitted as \\{\#
C9_Witness ==
    /\ Converted
    /\ md_ast[1] = Paragraph(<<Text(<<BACKSLASH, "{", "#">>)>>)
    /\ typst_body = <<BACKSLASH, BACKSLASH, "{", BACKSLASH, "#", NL, NL>>

-----------------------------------------------------------------------------
(* Specification SpecEngine: convert of an engine as new() builds it,       *)
(* called with every format and a few source texts                          *)

\* source texts with the children of the root markdown::to_mdast returns
\* for them
EngineSources ==
    { <<"", <<>>>>,
      <<"a", <<Paragraph(<<Text(<<"a">>)>>)>>>>,
      <<"# a", <<Heading(1, <<Text(<<"a">>)>>)>>>>,
      <<"###### a", <<Heading(6, <<Text(<<"a">>)>>)>>>>,
      <<"**a**", <<Paragraph(<<Strong(<<Text(<<"a">>)>>)>>)>>>>,
      <<"*a*", <<Paragraph(<<Emphasis(<<Text(<<"a">>)>>)>>)>>>>,
      <<"- a", <<List(FALSE, None, <<ListItem(<<Paragraph(<<Text(<<"a">>)>>)>>)>>)>>>>,
      <<"3. a", <<List(TRUE, Some(3), <<ListItem(<<Paragraph(<<Text(<<"a">>)>>)>>)>>)>>>>,
      <<"a\n\n# b", <<Paragraph(<<Text(<<"a">>)>>), Heading(1, <<Text(<<"b">>)>>)>>>>,
      <<"***", <<ThematicBreak>>>> }

\* templates of the PdfExporter of the engine, PdfExporter::default()
EngineTemplates == {DEFAULT_TEMPLATE}

InitEngine ==
    /\ exporters = new_exporters
    /\ format \in OutputFormat
    /\ \E src \in EngineSources : template_str = src[1] /\ md_ast = src[2]
    /\ exporter = None
    /\ default_font_size = DefaultBody
    /\ template \in EngineTemplates
    /\ pc = "convert_call"
    /\ idx = 0
    /\ docx = <<>>
    /\ typst_body = <<>>
    /\ main_source = <<>>
    /\ result = None

SpecEngine == InitEngine /\ [][EngineNext]_vars

RECURSIVE all_paragraphs(_)
\* the paragraphs of the whole document: every child of the root rendered
all_paragraphs(children) ==
    IF children = <<>> THEN <<>>
    ELSE render_block_node(Head(children), 0) \o all_paragraphs(Tail(children))

\* the values the export of exporter e can return for the call of the state
export_returns(e) ==
    CASE e = "MarkdownExporter" ->
             {Exported(template_str, MARKDOWN_MIME, MARKDOWN_EXTENSION)}
      [] e = "HtmlExporter" ->
             {Exported(to_html(template_str), HTML_MIME, HTML_EXTENSION)}
      [] e = "DocxExporter" ->
             {Exported(<<"packed", all_paragraphs(md_ast)>>, DOCX_MIME, DOCX_EXTENSION),
              ExportError("MarkdownError", "message"),
              ExportError("DocxError", "pack")}
      [] e = "PdfExporter" ->
             {Exported(<<"pdf", inject_content(template, md_to_typst(md_ast))>>,
                       PDF_MIME, PDF_EXTENSION),
              ExportError("PdfError", "Markdown parse"),
              ExportError("PdfError", "Typst output error"),
              ExportError("PdfError", "Typst PDF rendering error")}

\* no exporter has run: nothing rendered, converted or injected
NoExporterRan == docx = <<>> /\ idx = 0 /\ typst_body = <<>> /\ main_source = <<>>

\* the registries that hold a part of what new() registers
SubRegistries == {[f \in D |-> new_exporters[f]] : D \in SUBSET OutputFormat}

stage_rank(p) ==
    CASE p = "convert_call" -> 0
      [] p \in {"parse", "export"} -> 1
      [] p \in {"convert", "render"} -> 2
      [] p = "inject" -> 3
      [] p = "compile" -> 4
      [] p = "serialize" -> 5
      [] p = "done" -> 6

\* the message of the PdfError a stage of the PDF export fails with; the
\* stages convert and inject cannot fail
pdf_stage_error(p) ==
    CASE p = "parse" -> {"Markdown parse"}
      [] p = "compile" -> {"Typst output error"}
      [] p = "serialize" -> {"Typst PDF rendering error"}
      [] OTHER -> {}

\* the value returned is a complete payload or one error
IsOutcome(r) ==
    \/ /\ DOMAIN r = {"ok", "data", "mime", "extension"}
       /\ r.ok
    \/ /\ DOMAIN r = {"ok", "kind", "msg"}
       /\ ~r.ok

\* a call has an outcome exactly when it has ended, and a payload is the
\* payload of the whole document
OutcomeAtEnd ==
    /\ (pc = "done") <=> (result # None)
    /\ result # None =>
         /\ IsOutcome(Unwrap(result))
         /\ (Unwrap(result).ok /\ exporter = Some("PdfExporter")) =>
                /\ typst_body = md_to_typst(md_ast)
                /\ main_source = inject_content(template, typst_body)
                /\ Unwrap(result) = Exported(<<"pdf", main_source>>, PDF_MIME, PDF_EXTENSION)
         /\ (Unwrap(result).ok /\ exporter = Some("DocxExporter")) =>
                /\ idx = Len(md_ast)
                /\ docx = all_paragraphs(md_ast)
                /\ Unwrap(result) = Exported(<<"packed", docx>>, DOCX_MIME, DOCX_EXTENSION)

\* a step of a call: it starts before the end of the call and moves forward,
\* to a later stage or, in the word-processor export, to the next child of
\* the root; a step of the PDF export either moves to the next stage without an outcome
\* or ends the call: from serialize with the payload or the error of that
\* stage, from an earlier stage with the error of that stage and with what
\* the later stages compute untouched
StageStep ==
    /\ pc # "done"
    /\ result = None
    /\ \/ stage_rank(pc') > stage_rank(pc)
       \/ pc = "render" /\ pc' = "render" /\ idx' = idx + 1
    /\ (exporter = Some("PdfExporter") /\ pc # "convert_call") =>
         \/ /\ pc' # "done"
            /\ stage_rank(pc') = stage_rank(pc) + 1
            /\ result' = None
         \/ /\ pc' = "done"
            /\ \/ /\ pc = "serialize"
                  /\ Unwrap(result').ok
               \/ /\ ~Unwrap(result').ok
                  /\ Unwrap(result').kind = "PdfError"
                  /\ Unwrap(result').msg \in pdf_stage_error(pc)
                  /\ UNCHANGED <<typst_body, main_source>>

\* C12: every export call ends in exactly one outcome, a complete payload
\* (data, media type, extension) or one error, set once at the end of the
\* call.  The stages of the PDF export run in the order parse, convert,
\* inject, compile, serialize; the first stage that fails ends the call with
\* the PdfError naming that stage, no later stage runs, no stage runs twice
\* and a payload is returned only after all stages, for the whole document.
C12_OneOutcomeStagesInOrder == []OutcomeAtEnd /\ [][StageStep]_vars

\* C12 witness: the PDF export ended by the failure of the compile stage,
\* after parse, convert and inject, with the PdfError of that stage
C12_Witness ==
    /\ pc = "done"
    /\ exporter = Some("PdfExporter")
    /\ template_str = "a"
    /\ typst_body = <<"a", NL, NL>>
    /\ main_source = inject_content(template, typst_body)
    /\ result = Some(ExportError("PdfError", "Typst output error"))

-----------------------------------------------------------------------------
(* Specification SpecPdfInject: PdfExporter::new(Some(template), ..) with   *)
(* templates holding no, one or several placeholders, exporting documents   *)
(* whose generated text may itself hold the placeholder                     *)

RECURSIVE Concat(_)
\* the pieces of a sequence of strings joined
Concat(pieces) ==
    IF pieces = <<>> THEN <<>> ELSE Head(pieces) \o Concat(Tail(pieces))

\* what a template is put together from: text, the placeholder, and braces
\* that make a placeholder start one character later or end one earlier
TemplatePieces == {<<"a", NL>>, PLACEHOLDER, <<"{">>, <<"}">>}

InjectTemplates == {Concat(ps) : ps \in SeqsUpTo(TemplatePieces, MaxPieces)}

\* documents: none, plain text, and code that holds the placeholder
InjectDocs ==
    { <<>>,
      <<Paragraph(<<Text(<<"b">>)>>)>>,
      <<Code(None, PLACEHOLDER)>>,
      <<Paragraph(<<InlineCode(PLACEHOLDER)>>)>> }

InitPdfInject == InitCall("pdf", {DefaultBody}, InjectTemplates, InjectDocs)

SpecPdfInject == InitPdfInject /\ [][PdfNext]_vars

\* the positions of s at which pat starts
Occurrences(s, pat) ==
    {i \in 1..(Len(s) - Len(pat) + 1) : SubSeq(s, i, i + Len(pat) - 1) = pat}

\* the template has been injected
Injected == pc \in {"compile", "serialize"} \/ (pc = "done" /\ main_source # <<>>)

\* C13: the injected source is the template with the first occurrence of
\* the placeholder, and only that one, replaced by the generated text: what
\* stands before it and everything after it, later placeholders included,
\* is the text of the template, the generated text stands in between as it
\* was generated, also when it holds the placeholder itself, and a template
\* without the placeholder is the source unchanged.
C13_FirstPlaceholderOnly ==
    Injected =>
        LET occ == Occurrences(template, PLACEHOLDER)
        IN  IF occ = {}
            THEN main_source = template
            ELSE LET first == CHOOSE i \in occ : \A j \in occ : i <= j
                 IN  main_source =
                         SubSeq(template, 1, first - 1)
                         \o typst_body
                         \o SubSeq(template, first + Len(PLACEHOLDER), Len(template))

\* C13 witness: a template with two placeholders and a code block holding
\* the placeholder: the first is replaced, the second and the one of the
\* code block stay
C13_Witness ==
    /\ Injected
    /\ template = PLACEHOLDER \o <<"a", NL>> \o PLACEHOLDER
    /\ md_ast = <<Code(None, PLACEHOLDER)>>
    /\ main_source = <<BACKTICK, BACKTICK, BACKTICK, NL>> \o PLACEHOLDER
                     \o <<NL, BACKTICK, BACKTICK, BACKTICK, NL, NL>>
                     \o <<"a", NL>> \o PLACEHOLDER

-----------------------------------------------------------------------------
(* Specification SpecHeading: a Heading of every depth whose inline content *)
(* nests Strong, Emphasis and Link up to MaxNest deep, the leaves labelled  *)
(* as in SpecInline                                                         *)

StyledHeadingDocs ==
    {<<Heading(d, <<t>>)>> : d \in 1..6, t \in StyleTrees(FALSE, FALSE, MaxNest)}

InitHeading == InitCall("docx", {DefaultBody}, {DEFAULT_TEMPLATE}, StyledHeadingDocs)

SpecHeading == InitHeading /\ [][DocxNext]_vars

\* the heading of the document has been rendered and has a text run
StyledHeadingRendered == idx = 1 /\ TextRunsOf(docx[1]) # {}

\* C14 as claimed: a text run of a Heading node is bold only if it lies
\* inside a Strong node of the source, and every text run of the heading has
\* the heading size of its depth.
C14_HeadingBoldOnlyIfStrong ==
    StyledHeadingRendered =>
        \A k \in TextRunsOf(docx[1]) :
            LET run == docx[1].runs[k]
            IN  /\ run.bold <=> (run.text[1] \in {"b", "x"})
                /\ run.size = Some(heading_font_size(md_ast[1].depth))

\* C14 amended: every text run of a Heading node is bold, inside a Strong
\* node of the source or not; every text run of the heading has the heading
\* size of its depth.
C14_HeadingAlwaysBold ==
    StyledHeadingRendered =>
        \A k \in TextRunsOf(docx[1]) :
            LET run == docx[1].runs[k]
            IN  /\ run.bold
                /\ run.size = Some(heading_font_size(md_ast[1].depth))

\* C14 witness: the heading ## n, its text below no Strong node, is one bold
\* run of the size of depth 2
C14_Witness ==
    /\ idx = 1
    /\ md_ast = <<Heading(2, <<Text(<<"n">>)>>)>>
    /\ docx[1].runs = <<TextRun(<<"n">>, TRUE, FALSE, "default_font_family", Some(32))>>

-----------------------------------------------------------------------------
(* Specification SpecListItem: one list item at nesting depth 0..MaxDepth   *)
(* with up to MaxChildren children: paragraphs, code blocks and nested      *)
(* lists in every order.  The text of the first Paragraph child is "f" and  *)
(* the depth of the item, the text of every later one "c" and the depth;    *)
(* the paragraphs of the enclosing and of the nested items read "w".        *)

\* the child of the given kind; first tells that no Paragraph stands before it
ItemChild(kind, first, depth) ==
    CASE kind = "P" ->
           Paragraph(<<Text(<<IF first THEN "f" ELSE "c">> \o ToDigits(depth))>>)
      [] kind = "C" -> Code(None, <<"x">>)
      [] kind = "L" -> List(TRUE, None, <<ListItem(<<Paragraph(<<Text(<<"w">>)>>)>>)>>)

\* the children of the item, one per kind of the sequence
ItemOfKinds(kinds, depth) ==
    ListItem([k \in 1..Len(kinds) |->
                 ItemChild(kinds[k], \A j \in 1..(k - 1) : kinds[j] # "P", depth)])

RECURSIVE ListAtDepth(_, _, _)
\* a list whose one item is the item, below depth enclosing items
ListAtDepth(item, ordered, depth) ==
    IF depth = 0 THEN List(ordered, None, <<item>>)
    ELSE List(FALSE, None,
              <<ListItem(<<Paragraph(<<Text(<<"w">>)>>),
                           ListAtDepth(item, ordered, depth - 1)>>)>>)

ItemDocs ==
    { <<ListAtDepth(ItemOfKinds(kinds, depth), ordered, depth)>> :
        kinds \in SeqsUpTo({"P", "C", "L"}, MaxChildren) \ {<<>>},
        ordered \in BOOLEAN, depth \in 0..MaxDepth }

InitListItem == InitCall("docx", {DefaultBody}, {DEFAULT_TEMPLATE}, ItemDocs)

SpecListItem == InitListItem /\ [][DocxNext]_vars

\* the paragraphs of the document that come from a Paragraph child of the
\* item: their text run reads f or c
ItemParas(tag) ==
    {i \in 1..Len(docx) :
        /\ docx[i].runs # <<>>
        /\ docx[i].runs[Len(docx[i].runs)].text # <<>>
        /\ docx[i].runs[Len(docx[i].runs)].text[1] = tag}

\* the depth a paragraph of the item names
ParaDepth(para) ==
    CHOOSE d \in 0..MaxDepth : Tail(para.runs[Len(para.runs)].text) = ToDigits(d)

RECURSIVE ParagraphChildren(_)
\* the number of Paragraph children of the item of a list built by ListAtDepth
ParagraphChildren(list) ==
    LET item == list.children[1]
    IN  IF item.children[1].kind = "Paragraph" /\ item.children[1].children[1].value = <<"w">>
        THEN ParagraphChildren(item.children[2])
        ELSE Cardinality({k \in 1..Len(item.children) : item.children[k].kind = "Paragraph"})

\* the first Paragraph child of the item carries the marker run and the
\* hanging indent, at the left indent base + n * increment; every Paragraph
\* child of the item is rendered, and a later one has no marker and no
\* hanging indent
FirstAndLaterParagraphs ==
    /\ Cardinality(ItemParas("f") \cup ItemParas("c")) = ParagraphChildren(md_ast[1])
    /\ \A i \in ItemParas("f") :
         /\ IsMarkerPara(docx[i])
         /\ docx[i].hanging = Some(LIST_HANGING)
         /\ docx[i].left = Some(LIST_BASE_LEFT + ParaDepth(docx[i]) * LIST_LEVEL_INCREMENT)
    /\ \A i \in ItemParas("c") :
         /\ ~IsMarkerPara(docx[i])
         /\ Len(docx[i].runs) = 1
         /\ docx[i].hanging = None

\* C15 as claimed: within one list item at nesting depth n only the first
\* Paragraph child carries the marker run and the hanging indent; every
\* later Paragraph child has no marker, no hanging indent, and the left
\* indent of the first one, base + n * increment.
C15_LaterParagraphsSameLeft ==
    ListRendered =>
        /\ FirstAndLaterParagraphs
        /\ \A i \in ItemParas("c") :
             docx[i].left = Some(LIST_BASE_LEFT + ParaDepth(docx[i]) * LIST_LEVEL_INCREMENT)

\* C15 amended: as claimed for the marker and the hanging indent; the left
\* indent of every later Paragraph child is that of the first one plus the
\* hanging indent, base + n * increment + hanging.
C15_LaterParagraphsLeftPlusHanging ==
    ListRendered =>
        /\ FirstAndLaterParagraphs
        /\ \A i \in ItemParas("c") :
             docx[i].left = Some(LIST_BASE_LEFT + ParaDepth(docx[i]) * LIST_LEVEL_INCREMENT
                                 + LIST_HANGING)

\* C15 witness: an item at depth 1 with two paragraphs: the first with the
\* marker at left 1080 hanging 360, the second without marker at left 1440
C15_Witness ==
    /\ ListRendered
    /\ md_ast = <<ListAtDepth(ItemOfKinds(<<"P", "P">>, 1), TRUE, 1)>>
    /\ Len(docx) = 3
    /\ docx[2].runs[1].text = <<"1", ".", " ">>
    /\ docx[2].runs[2].text = <<"f", "1">>
    /\ docx[2].left = Some(1080) /\ docx[2].hanging = Some(360)
    /\ Len(docx[3].runs) = 1
    /\ docx[3].runs[1].text = <<"c", "1">>
    /\ docx[3].left = Some(1440) /\ docx[3].hanging = None

-----------------------------------------------------------------------------
(* The inline kinds without an arm of their own, under SpecInline *)

\* the document is one paragraph whose one child is a Link that holds only
\* Text, InlineCode and Break nodes, and the paragraph has been rendered
LinkOfLeavesRendered ==
    /\ idx = 1
    /\ md_ast[1].kind = "Paragraph"
    /\ Len(md_ast[1].children) = 1
    /\ md_ast[1].children[1].kind = "Link"
    /\ \A k \in 1..Len(md_ast[1].children[1].children) :
           md_ast[1].children[1].children[k].kind \in {"Text", "InlineCode", "Break"}

\* C16 as claimed: an inline node of a kind other than Text, InlineCode,
\* Code, Strong, Emphasis and Break, such as a link whose children are Text
\* nodes, is flattened to the concatenation of the Text and InlineCode values
\* it contains, Break being a line separator, and that text is emitted as
\* one run whenever it is not empty.
C16_OtherInlineFlattened ==
    LinkOfLeavesRendered =>
        LET txt == collect_plain_text(md_ast[1].children[1].children)
        IN  docx[1].runs =
                IF txt = <<>> THEN <<>>
                ELSE <<TextRun(txt, FALSE, FALSE, "default_font_family",
                               Some(default_font_size))>>

-----------------------------------------------------------------------------
(* Specification SpecPdfList: one top-level list of up to MaxItems items    *)
(* exported by the PdfExporter; an item holds its text, its text and a      *)
(* nested list, or a nested list alone.  The items are labelled as in       *)
(* SpecList.                                                                *)

PdfItemChoices ==
    {<<"P">>}
    \cup {<<"PL", nl>> : nl \in NestedLists}
    \cup {<<"L", nl>> : nl \in {SingleItemList(1), NestedList(1, FALSE, None, FALSE),
                                NestedList(1, TRUE, None, TRUE)}}

PdfTopLists ==
    UNION { { List(o, st, [k \in 1..cnt |->
                      ListItem(ItemChildren(FirstPara(0, o, Ordinal(o, st, k)), f[k]))])
              : f \in [1..cnt -> PdfItemChoices] }
            : o \in BOOLEAN, st \in StartOpts, cnt \in 1..MaxItems }

PdfListDocs == {<<l>> : l \in PdfTopLists}

InitPdfList == InitCall("pdf", {DefaultBody}, {DEFAULT_TEMPLATE}, PdfListDocs)

SpecPdfList == InitPdfList /\ [][PdfNext]_vars

RECURSIVE OwnText(_)
\* the text of the Paragraph children of an item
OwnText(children) ==
    IF children = <<>> THEN <<>>
    ELSE (IF Head(children).kind = "Paragraph"
          THEN collect_inlines(Head(children).children) ELSE <<>>)
         \o OwnText(Tail(children))

RECURSIVE ClaimedLines(_, _)
RECURSIVE ClaimedItemLines(_, _, _, _)
RECURSIVE ClaimedNestedLines(_, _)

\* the lines the claim gives a list at a nesting depth: one line per item,
\* two spaces per level, the prefix, the text of the item; then the lines of
\* the lists nested in the item
ClaimedLines(list, depth) ==
    ClaimedItemLines(list.children, list.ordered,
                     IF IsSome(list.start) THEN Unwrap(list.start) ELSE 1, depth)

ClaimedItemLines(items, ordered, ordinal, depth) ==
    IF items = <<>> THEN <<>>
    ELSE LET item == Head(items)
             prefix == IF ordered THEN ToDigits(ordinal) \o <<".", " ">> ELSE <<"-", " ">>
         IN  <<Repeat(" ", 2 * depth) \o prefix \o OwnText(item.children)>>
             \o ClaimedNestedLines(item.children, depth)
             \o ClaimedItemLines(Tail(items), ordered, ordinal + 1, depth)

ClaimedNestedLines(children, depth) ==
    IF children = <<>> THEN <<>>
    ELSE (IF Head(children).kind = "List"
          THEN ClaimedLines(Head(children), depth + 1) ELSE <<>>)
         \o ClaimedNestedLines(Tail(children), depth)

\* the lines of a text that are not blank, each without the white space at
\* its end
NonBlankLines(text) ==
    LET ls == Lines(text)
        keep == SelectSeq(ls, LAMBDA l : Trim(l) # <<>>)
    IN  [k \in 1..Len(keep) |-> TrimEnd(keep[k])]

\* C17 as claimed: an ordered item is prefixed by its ordinal (from the start
\* of the list, default 1, plus one per item), a period and a space, an
\* unordered item by a hyphen and a space; every non-blank line of a nested
\* list stands on a line of its own after the text of the parent item, with
\* two more spaces before it than it had, also when the parent item has no
\* text of its own before the nested list.
C17_NestedLinesIndented ==
    Converted =>
        NonBlankLines(typst_body)
            = [k \in 1..Len(ClaimedLines(md_ast[1], 0)) |->
                   TrimEnd(ClaimedLines(md_ast[1], 0)[k])]

-----------------------------------------------------------------------------
(* Specification SpecBreaks: a Paragraph, an Emphasis node or a Heading     *)
(* that holds one Text node of every value up to MaxTextLen over two        *)
(* letters and the line break, a Break node, or both                        *)

BreakTexts == {Text(v) : v \in SeqsUpTo({"a", "b", NL}, MaxTextLen)}

BreakChildren ==
    {<<t>> : t \in BreakTexts}
    \cup {<<t, Break>> : t \in BreakTexts}
    \cup {<<Break, t>> : t \in BreakTexts}
    \cup {<<Break>>}

BreakDocs ==
    {<<Paragraph(c)>> : c \in BreakChildren}
    \cup {<<Paragraph(<<Emphasis(c)>>)>> : c \in BreakChildren}
    \cup {<<Heading(3, c)>> : c \in BreakChildren}

InitBreaks == InitCall("docx", {DefaultBody}, {DEFAULT_TEMPLATE}, BreakDocs)

SpecBreaks == InitBreaks /\ [][DocxNext]_vars

\* the Text and Break nodes of the document
BreakLeaves ==
    LET c == md_ast[1].children
    IN  IF c # <<>> /\ c[1].kind = "Emphasis" THEN c[1].children ELSE c

\* the number of line-break characters of a string
LineBreaks(v) == Cardinality({i \in 1..Len(v) : v[i] = NL})

\* the number of Break nodes and of line-break characters of Text values
RECURSIVE BreaksOf(_)
BreaksOf(nodes) ==
    IF nodes = <<>> THEN 0
    ELSE (CASE Head(nodes).kind = "Break" -> 1
            [] Head(nodes).kind = "Text" -> LineBreaks(Head(nodes).value)
            [] OTHER -> 0)
         + BreaksOf(Tail(nodes))

\* C18: a Text node whose value has k line-break characters yields exactly
\* k line-break runs and one text run per non-empty segment, in source
\* order, a line-break run between each two successive segments and none
\* after the last; a Break node yields exactly one line-break run and no
\* text.  So the runs read back, a line-break run as a line break, give the
\* source text; no text run is empty or holds a line break; no two text runs
\* are neighbours; there are as many line-break runs as line-break
\* characters and Break nodes.
C18_TextSplitsAtLineBreaks ==
    idx = 1 =>
        LET runs == docx[1].runs
        IN  /\ RunsText(runs) = collect_plain_text(BreakLeaves)
            /\ Cardinality({i \in 1..Len(runs) : runs[i].break}) = BreaksOf(BreakLeaves)
            /\ \A i \in TextRunsOf(docx[1]) :
                   /\ runs[i].text # <<>>
                   /\ \A j \in 1..Len(runs[i].text) : runs[i].text[j] # NL
            /\ \A i \in 1..(Len(runs) - 1) : runs[i].break \/ runs[i + 1].break

\* C18 witness: the Text value a, line break, b gives the runs a, break, b;
\* nothing follows b
C18_Witness ==
    /\ idx = 1
    /\ md_ast = <<Paragraph(<<Text(<<"a", NL, "b">>)>>)>>
    /\ docx[1].runs =
           << TextRun(<<"a">>, FALSE, FALSE, "default_font_family", Some(DefaultBody)),
              BreakRun,
              TextRun(<<"b">>, FALSE, FALSE, "default_font_family", Some(DefaultBody)) >>

\* C18 witness of the Break node: a paragraph holding a Break alone is one
\* line-break run
C18_WitnessBreak ==
    /\ idx = 1
    /\ md_ast = <<Paragraph(<<Break>>)>>
    /\ docx[1].runs = <<BreakRun>>

=============================================================================
